---------------------------- MODULE Spec2Model ----------------------------
(***************************************************************************)
(* State-machine model of the graphql_agent prompt router:                 *)
(*   - PromptRouter.dispatch and SchemaAwareMCPStrategy.execute            *)
(*     (prompt_router.py), the bounded tool-selection loop;                *)
(*   - MCPServerBinding.resolved_mcp_tools / _load_mcp_tools, the lazily   *)
(*     loaded, lock-guarded tool list of one configured server;            *)
(*   - MCPClient._rpc_call / discover / handle (services/mcp.py), the      *)
(*     JSON-RPC client with its process-wide id counter;                   *)
(*   - AIAnalyzer.analyze_prompt / _parse_ai_response                      *)
(*     (services/ai_analyzer.py), the oracle adapter.                      *)
(* Coroutines are modelled at the granularity of asyncio: one action runs  *)
(* a coroutine from one suspension point (an awaited network or executor   *)
(* call, a wait for a held lock) to the next.                              *)
(*                                                                         *)
(* Text is modelled as sequences of one-character strings, so that         *)
(* str.strip, str.lower and the token regular expression are computed.     *)
(* Floats are modelled in hundredths (0.5 is 50).                          *)
(***************************************************************************)
EXTENDS Integers, Sequences, FiniteSets, TLC

VARIABLES
    servers,            \* SchemaAwareMCPStrategy._servers: the bindings' names, in order
    prompt,             \* per request: the prompt argument of PromptRouter.dispatch
    pc,                 \* per request: the suspension point of its coroutine
    idx,                \* per request: position in self._servers while resolving tools
    available_servers,  \* per request: the tool lists gathered so far (execute, l.115)
    max_attempts,       \* per request: execute's local max_attempts
    existing_context,   \* per request: execute's local existing_context, as fragments
    ai_suggestion,      \* per request: execute's local ai_suggestion
    binding,            \* per request: execute's local binding (index into Servers, 0 = None)
    outcome,            \* per request: the PromptOutcome returned or the exception raised
    schema_loaded,      \* per binding: MCPServerBinding._schema_loaded
    mcp_tools,          \* per binding: MCPServerBinding._mcp_tools
    lock,               \* per binding: holder of MCPServerBinding._lock (0 = free)
    id_counter,         \* MCPClient._id_counter: the value next() returns next
    sent,               \* history: every JSON-RPC request posted by _rpc_call, in order
    ctx_passed,         \* history, per request: existing_context argument of the latest analyze_prompt
    nAnalyze,           \* history, per request: analyze_prompt calls made
    nHandle,            \* history, per request: binding.client.handle calls made
    nHandleFailed,      \* history, per request: handle calls that raised
    nDiscover,          \* history, per binding: client.discover calls made
    discovered,         \* history, per binding: the response the discovery POST got
    google_genai_client, \* AIAnalyzer._google_genai_client: TRUE when built, FALSE when None
    auth_token          \* ServiceClient.auth_token of every client: settings.api_auth_token

vars == << servers, prompt, pc, idx, available_servers, max_attempts, existing_context,
           ai_suggestion, binding, outcome, schema_loaded, mcp_tools, lock,
           id_counter, sent, ctx_passed, nAnalyze, nHandle, nHandleFailed,
           nDiscover, discovered, google_genai_client, auth_token >>

---------------------------------------------------------------------------
(* Bounds and program constants *)

\* Number of callers that resolve the tool lists at once (SpecLoad).
NumCallers == 3

\* Number of whole requests that run at once (SpecConc).
NumRequests == 2

\* max_attempts = 10 (prompt_router.py l.125); also the literal in "10 - max_attempts".
MaxAttempts == 10

\* the confidence cutoff 0.5 (prompt_router.py l.145), in hundredths
ConfidenceThreshold == 50

\* itertools.count(1) (services/mcp.py l.20)
FirstId == 1

Callers == 1..NumCallers

---------------------------------------------------------------------------
(* Text: str.strip, str.lower, PROMPT_TOKEN_RE *)

Whitespace == {" ", "\t", "\n"}
UpperCase == <<"A", "B", "D", "F", "S", "Q">>
LowerCase == <<"a", "b", "d", "f", "s", "q">>
Digits == {"0", "1", "7"}

\* str.lower on one character
LowerChar(c) ==
    IF \E i \in 1..Len(UpperCase) : UpperCase[i] = c
    THEN LowerCase[CHOOSE i \in 1..Len(UpperCase) : UpperCase[i] = c]
    ELSE c

\* str.lower
Lower(s) == [i \in 1..Len(s) |-> LowerChar(s[i])]

\* a character matched by [a-z0-9] under re.IGNORECASE
IsTokenChar(c) ==
    \/ \E i \in 1..Len(LowerCase) : LowerCase[i] = LowerChar(c)
    \/ c \in Digits

RECURSIVE LStrip(_)
LStrip(s) == IF s # << >> /\ Head(s) \in Whitespace THEN LStrip(Tail(s)) ELSE s

RECURSIVE RStrip(_)
RStrip(s) ==
    IF s # << >> /\ s[Len(s)] \in Whitespace
    THEN RStrip(SubSeq(s, 1, Len(s) - 1))
    ELSE s

\* str.strip (PromptRouter.dispatch, l.220)
Strip(s) == RStrip(LStrip(s))

\* PROMPT_TOKEN_RE.findall: the maximal runs of token characters, left to right.
\* cur is the run being read, acc the runs already closed.
RECURSIVE FindAll(_, _, _)
FindAll(s, cur, acc) ==
    IF s = << >>
    THEN IF cur = << >> THEN acc ELSE Append(acc, cur)
    ELSE IF IsTokenChar(Head(s))
         THEN FindAll(Tail(s), Append(cur, Head(s)), acc)
         ELSE FindAll(Tail(s), << >>, IF cur = << >> THEN acc ELSE Append(acc, cur))

\* a tokeniser that takes every non-space character as part of a token
TokeniseAnyVisible(value) ==
    IF \E i \in 1..Len(value) : value[i] \notin Whitespace THEN << Lower(value) >> ELSE << >>

\* _tokenise (prompt_router.py l.43-44)
Tokenise(value) ==
    LET found == FindAll(Lower(value), << >>, << >>)
    IN  [i \in 1..Len(found) |-> Lower(found[i])]

---------------------------------------------------------------------------
(* Configuration: ApplicationState.__init__ builds one binding per server *)

\* MCPServerSettings.name of each configured server, in configuration order; the
\* third differs from the first in letter case only
ServerNames == << <<"d", "b">>, <<"F", "s">>, <<"D", "B">> >>

\* a configuration of the first two servers only
TwoServers == SubSeq(ServerNames, 1, 2)

Bindings == 1..Len(servers)

---------------------------------------------------------------------------
(* JSON values read from the oracle backend and from a remote server.      *)
(* A field of a decoded object is a value, JSON null, or not there.        *)

NullText == "<null>"
MissingText == "<missing>"
NullName == << "<null>" >>
MissingName == << "<missing>" >>
NullTools == << "<null>" >>
\* "confidence" null or not there
NullConfidence == 0 - 2
MissingConfidence == 0 - 1

\* The objects the oracle backend answers with (the "reasoning" text is not read
\* by the router and is left out).
OracleObjects ==
    { \* a final answer, with a confidence below the cutoff and an unknown server
      [server_name |-> <<"x">>, tool_name |-> "", confidence |-> 30,
       suggested_arguments |-> MissingText, internal_final_outcome |-> "answer"],
      \* a final answer and nothing else but "server_name": null
      [server_name |-> NullName, tool_name |-> MissingText, confidence |-> MissingConfidence,
       suggested_arguments |-> MissingText, internal_final_outcome |-> "done"],
      \* just below the cutoff
      [server_name |-> <<"D", "B">>, tool_name |-> "query", confidence |-> 49,
       suggested_arguments |-> "{q}", internal_final_outcome |-> ""],
      \* exactly the cutoff; the server name differs from the binding's in case only
      [server_name |-> <<"D", "B">>, tool_name |-> "query", confidence |-> 50,
       suggested_arguments |-> "{q}", internal_final_outcome |-> MissingText],
      \* the second server, no arguments, final answer null
      [server_name |-> <<"f", "s">>, tool_name |-> "read", confidence |-> 90,
       suggested_arguments |-> "{}", internal_final_outcome |-> NullText],
      \* a server that is not configured
      [server_name |-> <<"x">>, tool_name |-> "query", confidence |-> 90,
       suggested_arguments |-> "{q}", internal_final_outcome |-> ""],
      \* no server name at all ("empty if no server fits")
      [server_name |-> MissingName, tool_name |-> MissingText, confidence |-> 90,
       suggested_arguments |-> MissingText, internal_final_outcome |-> MissingText],
      \* "server_name": null
      [server_name |-> NullName, tool_name |-> "query", confidence |-> 90,
       suggested_arguments |-> "{q}", internal_final_outcome |-> ""],
      \* "suggested_arguments": null
      [server_name |-> <<"D", "B">>, tool_name |-> "query", confidence |-> 90,
       suggested_arguments |-> NullText, internal_final_outcome |-> ""],
      \* "confidence": null
      [server_name |-> <<"D", "B">>, tool_name |-> "query", confidence |-> NullConfidence,
       suggested_arguments |-> "{q}", internal_final_outcome |-> ""],
      \* no "confidence"
      [server_name |-> <<"D", "B">>, tool_name |-> "query", confidence |-> MissingConfidence,
       suggested_arguments |-> "{q}", internal_final_outcome |-> ""] }

NoObject ==
    [server_name |-> MissingName, tool_name |-> MissingText, confidence |-> MissingConfidence,
     suggested_arguments |-> MissingText, internal_final_outcome |-> MissingText]

\* What generate_content does: raises, or returns response.text (empty, not JSON,
\* or a JSON object).
BackendReplies ==
    { [kind |-> k, obj |-> NoObject] : k \in {"raises", "empty", "not_json"} }
    \cup { [kind |-> "json", obj |-> o] : o \in OracleObjects }

---------------------------------------------------------------------------
(* AIAnalyzer *)

\* ToolSuggestion | None: present = FALSE is None
NoSuggestion ==
    [present |-> FALSE, tool_name |-> "", server_name |-> << >>, confidence |-> 0,
     arguments |-> "", internal_final_outcome |-> ""]

\* dict.get(key, default) on a text field
GetText(v, default) == IF v = MissingText THEN default ELSE v

\* a test for None only: "is not None" in place of bool(x)
TruthyNotNone(v) == v # NullText

\* bool(x) of a decoded text or container value: None, "", [] and {} are falsy
Truthy(v) == v \notin {NullText, "", "[]", "{}"}

\* _parse_ai_response builds the ToolSuggestion; raised = TRUE when an exception
\* other than json.JSONDecodeError leaves it: float(None), len(None).
ParseAiResponse(reply) ==
    IF reply.kind \in {"empty", "not_json"}
    THEN [raised |-> FALSE, suggestion |-> NoSuggestion]
    ELSE LET o == reply.obj
             args == GetText(o.suggested_arguments, "[]")
         IN  IF o.confidence = NullConfidence \/ args = NullText
             THEN [raised |-> TRUE, suggestion |-> NoSuggestion]
             ELSE [raised |-> FALSE,
                   suggestion |->
                     [present |-> TRUE,
                      tool_name |-> GetText(o.tool_name, ""),
                      server_name |->
                          IF o.server_name = MissingName THEN << >> ELSE o.server_name,
                      confidence |->
                          IF o.confidence = MissingConfidence THEN 0 ELSE o.confidence,
                      arguments |-> args,
                      internal_final_outcome |-> GetText(o.internal_final_outcome, "")]]

\* an analyzer that answers a failure with an empty suggestion in place of None
AnalyzeDefaultOnFailure(client, reply) ==
    IF ~client \/ reply.kind = "raises"
    THEN [NoSuggestion EXCEPT !.present = TRUE]
    ELSE LET parsed == ParseAiResponse(reply)
         IN  IF parsed.raised \/ ~parsed.suggestion.present
             THEN [NoSuggestion EXCEPT !.present = TRUE]
             ELSE parsed.suggestion

\* _analyze_with_google_genai: None without a client, None on any exception
AnalyzeWithGoogleGenai(client, reply) ==
    IF ~client \/ reply.kind = "raises"
    THEN NoSuggestion
    ELSE LET parsed == ParseAiResponse(reply)
         IN  IF parsed.raised THEN NoSuggestion ELSE parsed.suggestion

---------------------------------------------------------------------------
(* MCPClient: one HTTP exchange is a reply [status, body].  status 0 stands *)
(* for no response at all (httpx.TransportError: refused, timed out).       *)
(* body is what the server sent: "not_json"; a JSON object with a non-null  *)
(* "error" ("error"); one without "error" and without a top-level "tools"   *)
(* ("result"); one whose top-level "tools" is a list ("tools") or null      *)
(* ("tools_null"); the JSON value null ("not_object").                      *)

Reply(status, body) == [status |-> status, body |-> body]

TransportFailure == Reply(0, "none")

DiscoverReplies ==
    { TransportFailure, Reply(500, "none"), Reply(200, "not_json"), Reply(200, "not_object"),
      Reply(200, "error"), Reply(200, "result"), Reply(200, "tools"), Reply(200, "tools_null") }

\* LATEST_PROTOCOL_VERSION (types/mcp_2025_08_16.py l.11), the version
\* make_initialize_request asks for
LatestProtocolVersion == "2025-06-18"

\* the "protocolVersion" a server's JSON object declares
ProtocolVersions == { LatestProtocolVersion, "2024-11-05" }

\* what the discovery POST of a binding was answered with; version is "" when the
\* body is no JSON object
Response(reply, version) ==
    [status |-> reply.status, body |-> reply.body,
     version |-> IF reply.body \in {"result", "tools", "tools_null", "error"}
                 THEN version ELSE ""]

NoResponse == [status |-> 0, body |-> "", version |-> ""]

\* the discovery answers that differ in what the dispatch loop is given: no
\* tools, the published tools, or "tools": null
LoopDiscoverReplies == { TransportFailure, Reply(200, "tools"), Reply(200, "tools_null") }

InvokeReplies ==
    { TransportFailure, Reply(500, "none"), Reply(404, "none"), Reply(415, "none"),
      Reply(422, "none"), Reply(200, "not_json"), Reply(200, "error"), Reply(200, "result") }

FallbackReplies ==
    { TransportFailure, Reply(500, "none"), Reply(200, "not_json"), Reply(200, "result") }

\* the tool list a server publishes
PublishedTools == << "query" >>

\* every request takes the same id
NextRequestIdFixed(counter) == FirstId

\* next(self._id_counter) (services/mcp.py l.25): the id this request gets
NextRequestId(counter) == counter

\* the envelope built by _rpc_call (l.27-32), as posted by client c
Envelope(c, id, method) == [client |-> c, jsonrpc |-> "2.0", id |-> id, method |-> method]

\* settings.api_auth_token: None, or the token of the deployment
ConfiguredToken == "s3cret"
AuthTokens == { NullText, ConfiguredToken }

\* a client that sends no header
HeadersAnonymous(token) == {}

\* ServiceClient._headers (services/base.py l.32-37), as a set of <<name, value>>
Headers(token) ==
    IF Truthy(token) THEN { << "Authorization", << "Bearer", token >> >> } ELSE {}

\* self._client.post(path, json=envelope, headers=self._headers()) (l.33)
Post(c, id, method, token) == Envelope(c, id, method) @@ [headers |-> Headers(token)]

\* _rpc_call after the POST (l.33-40): the payload, or the exception raised
RpcCall(reply) ==
    IF reply.status = 0 THEN [raised |-> "TransportError", payload |-> ""]
    ELSE IF reply.status \notin 200..299 THEN [raised |-> "HTTPStatusError", payload |-> ""]
    ELSE IF reply.body = "not_json" THEN [raised |-> "JSONDecodeError", payload |-> ""]
    ELSE IF reply.body = "not_object"
         THEN [raised |-> "TypeError: argument of type 'NoneType' is not iterable", payload |-> ""]
    ELSE IF reply.body = "error" THEN [raised |-> "RuntimeError: MCP error", payload |-> ""]
    ELSE [raised |-> "", payload |-> reply.body]

\* MCPClient.discover (l.42-53): HTTPStatusError becomes {}
Discover(reply) ==
    LET r == RpcCall(reply)
    IN  IF r.raised = "HTTPStatusError" THEN [raised |-> "", payload |-> "empty_object"] ELSE r

\* a handler that gives None in place of []
LoadMcpToolsNoneOnFailure(reply) ==
    LET r == Discover(reply)
    IN  IF r.raised # "" THEN NullTools
        ELSE IF r.payload = "tools" THEN PublishedTools
        ELSE IF r.payload = "tools_null" THEN NullTools
        ELSE << >>

\* MCPServerBinding._load_mcp_tools (prompt_router.py l.76-86):
\* discover_result.get("tools", []), and [] on any exception
LoadMcpTools(reply) ==
    LET r == Discover(reply)
    IN  IF r.raised # "" THEN << >>
        ELSE IF r.payload = "tools" THEN PublishedTools
        ELSE IF r.payload = "tools_null" THEN NullTools
        ELSE << >>

\* the statuses after which handle posts again (services/mcp.py l.88)
FallbackStatuses == {404, 415, 422}

\* a handler without the test of the status: every HTTP error is posted again
HandleFallbackOnAnyStatus(reply) ==
    LET r == RpcCall(reply)
    IN  IF r.raised = "" THEN [next |-> "return", value |-> r.payload]
        ELSE IF r.raised = "HTTPStatusError"
             THEN [next |-> "fallback", value |-> ""]
             ELSE [next |-> "raise", value |-> r.raised]

\* MCPClient.handle after its _rpc_call (l.81-101): the payload returned, the
\* exception raised, or the fallback POST
Handle(reply) ==
    LET r == RpcCall(reply)
    IN  IF r.raised = "" THEN [next |-> "return", value |-> r.payload]
        ELSE IF r.raised = "HTTPStatusError" /\ reply.status \in FallbackStatuses
             THEN [next |-> "fallback", value |-> ""]
             ELSE [next |-> "raise", value |-> r.raised]

\* MCPClient.handle after the fallback POST (l.89-100)
HandleFallback(reply) ==
    IF reply.status = 0 THEN [next |-> "raise", value |-> "TransportError"]
    ELSE IF reply.status \notin 200..299 THEN [next |-> "raise", value |-> "HTTPStatusError"]
    ELSE IF reply.body = "not_json"
         THEN [next |-> "raise", value |-> "RuntimeError: MCP invoke response was not valid JSON"]
         ELSE [next |-> "return", value |-> reply.body]

---------------------------------------------------------------------------
(* SchemaAwareMCPStrategy.execute: the decisions of one iteration *)

\* an off-by-one loop test
LoopContinuesOnceMore(m) == m >= 0

\* "while max_attempts:" (l.128)
LoopContinues(m) == m # 0

\* a count that leaves out the current consultation
NumTriesBefore(m) == MaxAttempts - m - 1

\* "num_tries": 10 - max_attempts (l.141)
NumTries(m) == MaxAttempts - m

\* a cutoff that also rejects the threshold itself
AtOrBelowThreshold(c) == c <= ConfidenceThreshold

\* ai_suggestion.confidence < 0.5 (l.145)
BelowThreshold(c) == c < ConfidenceThreshold

\* "if ai_suggestion and ai_suggestion.internal_final_outcome" (l.135)
IsFinal(suggestion) == suggestion.present /\ Truthy(suggestion.internal_final_outcome)

\* "if not ai_suggestion or ai_suggestion.confidence < 0.5" (l.145)
IsRejected(suggestion) == ~suggestion.present \/ BelowThreshold(suggestion.confidence)

\* the checks in the other order: the cutoff before the final answer
VerdictThresholdFirst(suggestion) ==
    IF IsRejected(suggestion) THEN "rejected"
    ELSE IF IsFinal(suggestion) THEN "finished"
    ELSE "route"

\* the order of the checks of one iteration (l.135-155): the final answer first,
\* then the cutoff, then the routing to a server
Verdict(suggestion) ==
    IF IsFinal(suggestion) THEN "finished"
    ELSE IF IsRejected(suggestion) THEN "rejected"
    ELSE "route"

\* a lookup that falls back on the first server
FindBindingOrFirst(name) ==
    IF \E i \in Bindings : Lower(servers[i]) = Lower(name)
    THEN CHOOSE i \in Bindings :
            /\ Lower(servers[i]) = Lower(name)
            /\ \A j \in 1..(i - 1) : Lower(servers[j]) # Lower(name)
    ELSE 1

\* a lookup without the break: the last binding of that name wins
FindBindingLast(name) ==
    IF \E i \in Bindings : Lower(servers[i]) = Lower(name)
    THEN CHOOSE i \in Bindings :
            /\ Lower(servers[i]) = Lower(name)
            /\ \A j \in (i + 1)..Len(servers) : Lower(servers[j]) # Lower(name)
    ELSE 0

\* the loop over self._servers (l.164-169): the first binding whose name equals
\* the suggested one ignoring case, 0 for None
FindBinding(name) ==
    IF \E i \in Bindings : Lower(servers[i]) = Lower(name)
    THEN CHOOSE i \in Bindings :
            /\ Lower(servers[i]) = Lower(name)
            /\ \A j \in 1..(i - 1) : Lower(servers[j]) # Lower(name)
    ELSE 0

\* one fragment of existing_context (l.186-190): "\n" + "Response from server
\* {server_name} and tool {tool_name}: {result}"
Fragment(suggestion, result) ==
    [server_name |-> suggestion.server_name, tool_name |-> suggestion.tool_name,
     result |-> result]

\* a context that keeps only the latest result
ReplaceContext(context, suggestion, result) == << Fragment(suggestion, result) >>

\* a context that puts the latest result in front
PrependContext(context, suggestion, result) == << Fragment(suggestion, result) >> \o context

\* existing_context = existing_context + "\n" + fragment (l.186-190)
AppendContext(context, suggestion, result) == Append(context, Fragment(suggestion, result))

Apology == "Sorry, I couldn't find what you're looking for."

\* PromptOutcome: keys is the set of keys of metadata; a field whose key is not
\* in keys holds a filler.  raised names the exception when one leaves dispatch.
NoOutcome ==
    [content |-> "", keys |-> {}, intent |-> "", confidence |-> 0, num_tries |-> 0,
     tool_name |-> "", arguments |-> "", details |-> "", context_gathered |-> << >>,
     raised |-> ""]

Raised(exception) == [NoOutcome EXCEPT !.raised = exception]

\* l.136-143
FinishedOutcome(suggestion, m) ==
    [NoOutcome EXCEPT !.content = suggestion.internal_final_outcome,
                      !.keys = {"intent", "confidence", "num_tries"},
                      !.intent = "finished",
                      !.confidence = suggestion.confidence,
                      !.num_tries = NumTries(m)]

\* a rejection that always reports confidence 0
RejectedOutcomeZero(suggestion) ==
    [NoOutcome EXCEPT !.content = Apology,
                      !.keys = {"intent", "confidence"},
                      !.intent = IF ~suggestion.present THEN "no_suggestion" ELSE "low_confidence",
                      !.confidence = 0]

\* l.146-155
RejectedOutcome(suggestion) ==
    [NoOutcome EXCEPT !.content = Apology,
                      !.keys = {"intent", "confidence"},
                      !.intent = IF ~suggestion.present THEN "no_suggestion" ELSE "low_confidence",
                      !.confidence = IF ~suggestion.present THEN 0 ELSE suggestion.confidence]

\* l.172-178
NoServerOutcome ==
    [NoOutcome EXCEPT !.content = Apology,
                      !.keys = {"intent", "confidence"},
                      !.intent = "no_mcp_server_found",
                      !.confidence = 0]

\* a failure report that leaves out what was called
FailedOutcomeBare(suggestion, exception) ==
    [NoOutcome EXCEPT !.content = "Something went wrong while querying the MCP server",
                      !.keys = {"intent", "details", "confidence"},
                      !.intent = "mcp_server_failed",
                      !.details = exception,
                      !.confidence = 0]

\* l.192-201
FailedOutcome(suggestion, exception) ==
    [NoOutcome EXCEPT !.content = "Something went wrong while querying the MCP server",
                      !.keys = {"intent", "tool_name", "arguments", "details", "confidence"},
                      !.intent = "mcp_server_failed",
                      !.tool_name = suggestion.tool_name,
                      !.arguments = suggestion.arguments,
                      !.details = exception,
                      !.confidence = 0]

\* l.203-209
ExhaustedOutcome(context) ==
    [NoOutcome EXCEPT !.content =
                          "Could not find the results after a lot of attempts, please narrow down the query",
                      !.keys = {"intent", "context_gathered"},
                      !.intent = "max_attempt_exceeded",
                      !.context_gathered = context]

---------------------------------------------------------------------------
(* The coroutine of one request.  Local is the frame of dispatch/execute;   *)
(* the Do operators run it forward from a value of that frame.              *)

\* one attribute of the strategy in place of the locals: every call shares it
FrameShared(r) == 1

\* max_attempts and existing_context are locals of execute (l.125-126): each call
\* has its own
Frame(r) == r

Local(r) ==
    [pc |-> pc[r], idx |-> idx[r], available_servers |-> available_servers[r],
     max_attempts |-> max_attempts[Frame(r)],
     existing_context |-> existing_context[Frame(r)],
     ai_suggestion |-> ai_suggestion[r], binding |-> binding[r], outcome |-> outcome[r],
     ctx_passed |-> ctx_passed[r], nAnalyze |-> nAnalyze[r], nHandle |-> nHandle[r],
     nHandleFailed |-> nHandleFailed[r]]

Commit(r, s) ==
    /\ pc' = [pc EXCEPT ![r] = s.pc]
    /\ idx' = [idx EXCEPT ![r] = s.idx]
    /\ available_servers' = [available_servers EXCEPT ![r] = s.available_servers]
    /\ max_attempts' = [max_attempts EXCEPT ![Frame(r)] = s.max_attempts]
    /\ existing_context' = [existing_context EXCEPT ![Frame(r)] = s.existing_context]
    /\ ai_suggestion' = [ai_suggestion EXCEPT ![r] = s.ai_suggestion]
    /\ binding' = [binding EXCEPT ![r] = s.binding]
    /\ outcome' = [outcome EXCEPT ![r] = s.outcome]
    /\ ctx_passed' = [ctx_passed EXCEPT ![r] = s.ctx_passed]
    /\ nAnalyze' = [nAnalyze EXCEPT ![r] = s.nAnalyze]
    /\ nHandle' = [nHandle EXCEPT ![r] = s.nHandle]
    /\ nHandleFailed' = [nHandleFailed EXCEPT ![r] = s.nHandleFailed]

\* "return PromptOutcome(...)"
DoReturn(s, o) == [s EXCEPT !.pc = "returned", !.outcome = o]

\* an exception that leaves execute; dispatch logs it and raises it again (l.235-237)
DoRaise(s, exception) == [s EXCEPT !.pc = "raised", !.outcome = Raised(exception)]

\* a loop that repeats the tool call without asking the oracle again
DoIterateSkipsOracle(s) ==
    IF LoopContinues(s.max_attempts)
    THEN [s EXCEPT !.max_attempts = @ - 1,
                   !.pc = "handle_wait",
                   !.nHandle = @ + 1]
    ELSE DoReturn(s, ExhaustedOutcome(s.existing_context))

\* the loop head (l.128-133): one more consultation, or the return after the loop
DoIterate(s) ==
    IF LoopContinues(s.max_attempts)
    THEN [s EXCEPT !.max_attempts = @ - 1,
                   !.pc = "analyze_wait",
                   !.ctx_passed = s.existing_context,
                   !.nAnalyze = @ + 1]
    ELSE DoReturn(s, ExhaustedOutcome(s.existing_context))

\* a gathering that starts the loop after the first binding
DoGatheredFirstOnly(s, tools) ==
    IF tools = NullTools
    THEN DoRaise(s, "TypeError: 'NoneType' object is not iterable")
    ELSE DoIterate([s EXCEPT !.available_servers = Append(@, tools),
                             !.max_attempts = MaxAttempts,
                             !.existing_context = << >>])

\* resolved_mcp_tools has returned tools for binding s.idx (l.115-126):
\* list(tools), then the next binding or the loop
DoGathered(s, tools) ==
    IF tools = NullTools
    THEN DoRaise(s, "TypeError: 'NoneType' object is not iterable")
    ELSE LET t == [s EXCEPT !.available_servers = Append(@, tools)]
         IN  IF s.idx < Len(servers)
             THEN [t EXCEPT !.idx = @ + 1, !.pc = "resolve"]
             ELSE DoIterate([t EXCEPT !.max_attempts = MaxAttempts,
                                      !.existing_context = << >>])

\* len(self._mcp_tools) in a logging call (l.63, l.72)
LenRaises(tools) == tools = NullTools

\* _rpc_call up to its POST (services/mcp.py l.25-33) on client c
IssueRpc(c, method) ==
    /\ sent' = Append(sent, Post(c, NextRequestId(id_counter), method, auth_token))
    /\ id_counter' = id_counter + 1

NoRpc == UNCHANGED << id_counter, sent >>

\* a cache that counts only when it holds tools
UsesCacheIfTools(loaded, tools) == loaded /\ tools # << >>

\* "if self._schema_loaded:" (prompt_router.py l.61): the cached list is returned
UsesCache(loaded, tools) == loaded

\* a caller that loads whether or not somebody else has
NeedsLoadAlways(loaded) == TRUE

\* "if not self._schema_loaded:" under the lock (prompt_router.py l.69)
NeedsLoad(loaded) == ~loaded

\* PromptRouter.dispatch (l.218-230) and execute up to its first await (l.108-113)
Dispatch(r) ==
    /\ pc[r] = "start"
    /\ LET normalized == Strip(prompt[r])
           s == Local(r)
       IN  Commit(r,
               IF normalized = << >>
               THEN DoRaise(s, "ValueError: Prompt must not be empty")
               ELSE IF Tokenise(normalized) = << >>
                    THEN DoRaise(s, "ValueError: Prompt must contain at least one token")
                    ELSE [s EXCEPT !.pc = "resolve", !.idx = 1])
    /\ NoRpc
    /\ UNCHANGED << servers, prompt, schema_loaded, mcp_tools, lock, nDiscover, discovered,
                    google_genai_client, auth_token >>

\* the load under the lock begins: _load_mcp_tools, client.discover, _rpc_call (l.70, l.80)
BeginLoad(r, b) ==
    /\ lock' = [lock EXCEPT ![b] = r]
    /\ nDiscover' = [nDiscover EXCEPT ![b] = @ + 1]
    /\ IssueRpc(b, "discover")
    /\ Commit(r, [Local(r) EXCEPT !.pc = "discover_wait"])
    /\ UNCHANGED << servers, prompt, schema_loaded, mcp_tools, discovered, google_genai_client, auth_token >>

\* resolved_mcp_tools is entered (l.60-68): the cached list, the load, or the wait
\* for the lock
Resolve(r) ==
    /\ pc[r] = "resolve"
    /\ LET b == idx[r]
       IN  IF UsesCache(schema_loaded[b], mcp_tools[b])
           THEN /\ Commit(r, IF LenRaises(mcp_tools[b])
                             THEN DoRaise(Local(r), "TypeError: object of type 'NoneType' has no len()")
                             ELSE DoGathered(Local(r), mcp_tools[b]))
                /\ NoRpc
                /\ UNCHANGED << servers, prompt, schema_loaded, mcp_tools, lock, nDiscover,
                                discovered, google_genai_client, auth_token >>
           ELSE IF lock[b] = 0
                THEN BeginLoad(r, b)
                ELSE /\ Commit(r, [Local(r) EXCEPT !.pc = "lock_wait"])
                     /\ NoRpc
                     /\ UNCHANGED << servers, prompt, schema_loaded, mcp_tools, lock, nDiscover,
                                     discovered, google_genai_client, auth_token >>

\* a waiter gets the lock (l.68-74): the check again, then the load or the list
LockAcquire(r) ==
    /\ pc[r] = "lock_wait"
    /\ lock[idx[r]] = 0
    /\ LET b == idx[r]
       IN  IF NeedsLoad(schema_loaded[b])
           THEN BeginLoad(r, b)
           ELSE /\ Commit(r, DoGathered(Local(r), mcp_tools[b]))
                /\ NoRpc
                /\ UNCHANGED << servers, prompt, schema_loaded, mcp_tools, lock, nDiscover,
                                discovered, google_genai_client, auth_token >>

\* the discovery POST is answered (l.70-74): the list is stored, the binding is
\* loaded, the lock is released
DiscoverReturn(r, reply, version) ==
    /\ pc[r] = "discover_wait"
    /\ LET b == idx[r]
           tools == LoadMcpTools(reply)
       IN  /\ discovered' = [discovered EXCEPT ![b] = Response(reply, version)]
           /\ mcp_tools' = [mcp_tools EXCEPT ![b] = tools]
           /\ schema_loaded' = [schema_loaded EXCEPT ![b] = TRUE]
           /\ lock' = [lock EXCEPT ![b] = 0]
           /\ Commit(r, IF LenRaises(tools)
                        THEN DoRaise(Local(r), "TypeError: object of type 'NoneType' has no len()")
                        ELSE DoGathered(Local(r), tools))
    /\ NoRpc
    /\ UNCHANGED << servers, prompt, nDiscover, google_genai_client, auth_token >>

\* a lock that stays with a holder who left by an exception
ExitLockLeaked(holder) == holder

\* the end of "async with self._lock" (l.68) when an exception leaves the block:
\* __aexit__ releases the lock
ExitLock(holder) == 0

\* the task of request r is cancelled while it awaits the discovery POST or the
\* lock (l.68-70): CancelledError is no Exception, so neither _load_mcp_tools
\* (l.84) nor dispatch (l.235) handles it; the assignments of l.70-71 are not made
Cancel(r) ==
    /\ pc[r] \in {"discover_wait", "lock_wait"}
    /\ lock' = IF pc[r] = "discover_wait"
               THEN [lock EXCEPT ![idx[r]] = ExitLock(r)]
               ELSE lock
    /\ Commit(r, DoRaise(Local(r), "CancelledError"))
    /\ NoRpc
    /\ UNCHANGED << servers, prompt, schema_loaded, mcp_tools, nDiscover, discovered,
                    google_genai_client, auth_token >>

\* analyze_prompt returns (l.131-185): the checks of the iteration, up to the
\* return or the call of binding.client.handle
AnalyzeReturn(r, reply) ==
    /\ pc[r] = "analyze_wait"
    /\ LET suggestion == AnalyzeWithGoogleGenai(google_genai_client, reply)
           s == [Local(r) EXCEPT !.ai_suggestion = suggestion]
       IN  IF Verdict(suggestion) = "finished"
           THEN Commit(r, DoReturn(s, FinishedOutcome(suggestion, s.max_attempts))) /\ NoRpc
           ELSE IF Verdict(suggestion) = "rejected"
           THEN Commit(r, DoReturn(s, RejectedOutcome(suggestion))) /\ NoRpc
           ELSE IF suggestion.server_name = NullName
           THEN Commit(r, DoRaise([s EXCEPT !.binding = 0],
                       "AttributeError: 'NoneType' object has no attribute 'lower'")) /\ NoRpc
           ELSE LET b == FindBinding(suggestion.server_name)
                IN  IF b = 0
                    THEN Commit(r, DoReturn([s EXCEPT !.binding = 0], NoServerOutcome)) /\ NoRpc
                    ELSE /\ Commit(r, [s EXCEPT !.binding = b,
                                                !.pc = "handle_wait",
                                                !.nHandle = @ + 1])
                         /\ IssueRpc(b, "invoke")
    /\ UNCHANGED << servers, prompt, schema_loaded, mcp_tools, lock, nDiscover, discovered,
                    google_genai_client, auth_token >>

\* what execute does with the end of binding.client.handle (l.181-201)
AfterHandle(r, h) ==
    LET s == Local(r)
    IN  IF h.next = "return"
        THEN Commit(r, DoIterate([s EXCEPT !.existing_context =
                                     AppendContext(@, s.ai_suggestion, h.value)]))
        ELSE IF h.next = "fallback"
        THEN Commit(r, [s EXCEPT !.pc = "fallback_wait"])
        ELSE Commit(r, DoReturn([s EXCEPT !.nHandleFailed = @ + 1],
                                FailedOutcome(s.ai_suggestion, h.value)))

\* the invoke POST is answered
HandleReturn(r, reply) ==
    /\ pc[r] = "handle_wait"
    /\ AfterHandle(r, Handle(reply))
    /\ NoRpc
    /\ UNCHANGED << servers, prompt, schema_loaded, mcp_tools, lock, nDiscover, discovered,
                    google_genai_client, auth_token >>

\* the fallback POST is answered
FallbackReturn(r, reply) ==
    /\ pc[r] = "fallback_wait"
    /\ AfterHandle(r, HandleFallback(reply))
    /\ NoRpc
    /\ UNCHANGED << servers, prompt, schema_loaded, mcp_tools, lock, nDiscover, discovered,
                    google_genai_client, auth_token >>

---------------------------------------------------------------------------
(* Specifications *)

\* prompts a caller sends: empty, blank, symbols only, and with tokens
Prompts ==
    { << >>, << " " >>, << "\t", " ", "\n" >>, << "?" >>, << " ", "?", "!", " " >>,
      << "q" >>, << " ", "D", "b", "?", "7", " " >> }

ValidPrompt == << "q" >>

InitShared ==
    /\ idx = [r \in Callers |-> 0]
    /\ available_servers = [r \in Callers |-> << >>]
    /\ max_attempts = [r \in Callers |-> 0]
    /\ existing_context = [r \in Callers |-> << >>]
    /\ ai_suggestion = [r \in Callers |-> NoSuggestion]
    /\ binding = [r \in Callers |-> 0]
    /\ outcome = [r \in Callers |-> NoOutcome]
    /\ schema_loaded = [b \in Bindings |-> FALSE]
    /\ mcp_tools = [b \in Bindings |-> << >>]
    /\ lock = [b \in Bindings |-> 0]
    /\ id_counter = FirstId
    /\ sent = << >>
    /\ ctx_passed = [r \in Callers |-> << >>]
    /\ nAnalyze = [r \in Callers |-> 0]
    /\ nHandle = [r \in Callers |-> 0]
    /\ nHandleFailed = [r \in Callers |-> 0]
    /\ nDiscover = [b \in Bindings |-> 0]
    /\ discovered = [b \in Bindings |-> NoResponse]

\* one request, any prompt, on a freshly started process
Init ==
    /\ servers = ServerNames
    /\ InitShared
    /\ \E p \in Prompts : prompt = [r \in Callers |-> IF r = 1 THEN p ELSE << >>]
    /\ pc = [r \in Callers |-> IF r = 1 THEN "start" ELSE "idle"]
    /\ google_genai_client \in BOOLEAN
    /\ auth_token = ConfiguredToken

\* a single request never finds a lock held, so LockAcquire is no step of it
Next ==
    \E r \in Callers :
        \/ Dispatch(r)
        \/ Resolve(r)
        \/ \E reply \in LoopDiscoverReplies : DiscoverReturn(r, reply, LatestProtocolVersion)
        \/ \E reply \in BackendReplies : AnalyzeReturn(r, reply)
        \/ \E reply \in InvokeReplies : HandleReturn(r, reply)
        \/ \E reply \in FallbackReplies : FallbackReturn(r, reply)

Spec == Init /\ [][Next]_vars

\* NumCallers requests at once, up to their first oracle consultation
InitLoad ==
    /\ servers = TwoServers
    /\ InitShared
    /\ prompt = [r \in Callers |-> ValidPrompt]
    /\ pc = [r \in Callers |-> "start"]
    /\ google_genai_client = TRUE
    /\ auth_token = ConfiguredToken

NextLoad ==
    \E r \in Callers :
        \/ Dispatch(r)
        \/ Resolve(r)
        \/ LockAcquire(r)
        \/ \E reply \in DiscoverReplies, version \in ProtocolVersions :
              DiscoverReturn(r, reply, version)

SpecLoad == InitLoad /\ [][NextLoad]_vars

\* NumCallers requests at once, up to their first oracle consultation, each of
\* which may be cancelled while it waits.
Progress(r) ==
    \/ Resolve(r)
    \/ LockAcquire(r)
    \/ \E reply \in LoopDiscoverReplies : DiscoverReturn(r, reply, LatestProtocolVersion)

NextCancel ==
    \E r \in Callers :
        \/ Dispatch(r)
        \/ Progress(r)
        \/ Cancel(r)

\* The event loop runs a coroutine that can go on, and the HTTP client's timeout
\* (services/base.py l.21) ends every POST; a request or a cancellation may or
\* may not come.
FairCancel == WF_vars(\E r \in Callers : Progress(r))

SpecCancel == InitLoad /\ [][NextCancel]_vars /\ FairCancel

\* NumRequests whole requests at once.  The oracle backend either goes on with
\* the first server or ends, a remote server answers or is unreachable.
ConcBackendReplies ==
    { [kind |-> "raises", obj |-> NoObject],
      [kind |-> "json",
       obj |-> [server_name |-> <<"D", "B">>, tool_name |-> "query", confidence |-> 50,
                suggested_arguments |-> "{q}", internal_final_outcome |-> MissingText]],
      [kind |-> "json",
       obj |-> [server_name |-> <<"x">>, tool_name |-> "", confidence |-> 30,
                suggested_arguments |-> MissingText, internal_final_outcome |-> "answer"]] }

ConcReplies == { TransportFailure, Reply(200, "result") }

InitConc ==
    /\ servers = TwoServers
    /\ InitShared
    /\ prompt = [r \in Callers |-> IF r <= NumRequests THEN ValidPrompt ELSE << >>]
    /\ pc = [r \in Callers |-> IF r <= NumRequests THEN "start" ELSE "idle"]
    /\ google_genai_client = TRUE
    /\ auth_token = ConfiguredToken

NextConc ==
    \E r \in Callers :
        \/ Dispatch(r)
        \/ Resolve(r)
        \/ LockAcquire(r)
        \/ \E reply \in ConcReplies : DiscoverReturn(r, reply, LatestProtocolVersion)
        \/ \E reply \in ConcBackendReplies : AnalyzeReturn(r, reply)
        \/ \E reply \in ConcReplies : HandleReturn(r, reply)

SpecConc == InitConc /\ [][NextConc]_vars

\* One request to a single server whose invoke endpoint may refuse the JSON-RPC
\* envelope and answer the bare params instead, also with an "error" object.
OneServer == SubSeq(ServerNames, 1, 1)

ErrorFallbackReplies == FallbackReplies \cup { Reply(200, "error") }

InitInvoke ==
    /\ servers = OneServer
    /\ InitShared
    /\ prompt = [r \in Callers |-> IF r = 1 THEN ValidPrompt ELSE << >>]
    /\ pc = [r \in Callers |-> IF r = 1 THEN "start" ELSE "idle"]
    /\ google_genai_client = TRUE
    /\ auth_token = ConfiguredToken

NextInvoke ==
    \E r \in Callers :
        \/ Dispatch(r)
        \/ Resolve(r)
        \/ \E reply \in LoopDiscoverReplies : DiscoverReturn(r, reply, LatestProtocolVersion)
        \/ \E reply \in ConcBackendReplies : AnalyzeReturn(r, reply)
        \/ \E reply \in InvokeReplies : HandleReturn(r, reply)
        \/ \E reply \in ErrorFallbackReplies : FallbackReturn(r, reply)

SpecInvoke == InitInvoke /\ [][NextInvoke]_vars

\* NumRequests whole requests at once on a deployment with or without a token
InitAuth ==
    /\ servers = OneServer
    /\ InitShared
    /\ prompt = [r \in Callers |-> IF r <= NumRequests THEN ValidPrompt ELSE << >>]
    /\ pc = [r \in Callers |-> IF r <= NumRequests THEN "start" ELSE "idle"]
    /\ google_genai_client = TRUE
    /\ auth_token \in AuthTokens

SpecAuth == InitAuth /\ [][NextConc]_vars

---------------------------------------------------------------------------
(* Properties *)

\* the consultation that ai_suggestion[r] came from has been judged
Judged(r) == pc[r] \in {"handle_wait", "fallback_wait", "returned", "raised"} /\ nAnalyze[r] > 0

\* a suggestion that is there and carries no final answer
NonFinal(suggestion) ==
    suggestion.present /\ suggestion.internal_final_outcome \in {"", NullText}

\* characters the claims call alphanumeric, listed apart from the tokeniser
Alphanumerics == {"a", "b", "d", "f", "s", "q", "A", "B", "D", "F", "S", "Q", "0", "1", "7"}

HasAlphanumeric(p) == \E i \in 1..Len(p) : p[i] \in Alphanumerics

\* binding i carries the suggested name, letter case aside
SameName(i, name) == Lower(servers[i]) = Lower(name)

Returned(r, intent) == pc[r] = "returned" /\ outcome[r].intent = intent

\* C1: at no time has one execute made more than 10 analyze_prompt calls or more
\* than 10 binding.client.handle calls, whatever the oracle and the servers answer.
C1_AtMostTenCalls ==
    \A r \in Callers : nAnalyze[r] <= 10 /\ nHandle[r] <= 10

C1_Witness == nAnalyze[1] = 10 /\ nHandle[1] = 10

\* C2: a dispatch whose prompt has an alphanumeric token ends only by returning a
\* PromptOutcome, and has made at most 10 consultations when it ends.
C2_EndsWithOutcome ==
    \A r \in Callers :
        HasAlphanumeric(prompt[r]) /\ pc[r] \in {"returned", "raised"}
            => pc[r] = "returned" /\ nAnalyze[r] <= 10

\* the part of C2 the code keeps: such a dispatch never makes an 11th consultation,
\* and whenever it has not ended, a step of it is waiting to be taken
TerminatesWithinTen ==
    \A r \in Callers :
        /\ nAnalyze[r] <= 10
        /\ pc[r] \in {"start", "resolve", "discover_wait", "analyze_wait", "handle_wait",
                      "fallback_wait"} => ENABLED Next

\* C3: a prompt without an alphanumeric character (empty, blank, symbols only) is
\* refused with ValueError, and when it is refused nothing has been posted, no
\* consultation or tool call has been made and every binding is as constructed.
C3_InvalidPromptNoIO ==
    \A r \in Callers :
        ~HasAlphanumeric(prompt[r]) /\ pc[r] \notin {"start", "idle"}
            => /\ pc[r] = "raised"
               /\ outcome[r].raised \in {"ValueError: Prompt must not be empty",
                                         "ValueError: Prompt must contain at least one token"}
               /\ sent = << >>
               /\ nAnalyze[r] = 0 /\ nHandle[r] = 0
               /\ \A b \in Bindings :
                    /\ nDiscover[b] = 0
                    /\ ~schema_loaded[b] /\ mcp_tools[b] = << >> /\ lock[b] = 0

C3_Witness ==
    /\ pc[1] = "raised"
    /\ prompt[1] = << " ", "?", "!", " " >>
    /\ outcome[1].raised = "ValueError: Prompt must contain at least one token"

\* C4: with any callers resolving one binding at once, client.discover runs at most
\* once for it, and all callers that were handed its tool list were handed the same.
C4_SingleFlight ==
    \A b \in Bindings :
        /\ nDiscover[b] <= 1
        /\ \A r1, r2 \in Callers :
             Len(available_servers[r1]) >= b /\ Len(available_servers[r2]) >= b
                => available_servers[r1][b] = available_servers[r2][b]

C4_Witness ==
    /\ \A r \in Callers :
         Len(available_servers[r]) >= 1 /\ available_servers[r][1] = PublishedTools
    /\ \E r \in Callers : pc[r] = "lock_wait" /\ idx[r] = 2
    /\ nDiscover[1] = 1

\* C5: a first suggestion without final answer and with a confidence under 0.5 ends
\* the dispatch as low_confidence after one consultation and no tool call; one with
\* exactly 0.5 is not turned away as low_confidence.
C5_LowConfidenceFirst ==
    \A r \in Callers :
        Judged(r) /\ NonFinal(ai_suggestion[r])
            => /\ nAnalyze[r] = 1 /\ ai_suggestion[r].confidence < 50
                    => Returned(r, "low_confidence") /\ nHandle[r] = 0
               /\ ai_suggestion[r].confidence = 50
                    => ~Returned(r, "low_confidence")

C5_Witness ==
    /\ Returned(1, "low_confidence")
    /\ ai_suggestion[1].confidence = 49
    /\ nAnalyze[1] = 1 /\ nHandle[1] = 0

\* C6: a suggestion without final answer, with a confidence of 0.5 or more and a
\* server name that no configured binding carries, ends the dispatch as
\* no_mcp_server_found with the apology and confidence 0, and no tool call is made
\* in that iteration: the calls made are those of the iterations before.
C6_NoServerMatch ==
    \A r \in Callers :
        /\ Judged(r) /\ NonFinal(ai_suggestion[r])
        /\ ai_suggestion[r].confidence >= 50
        /\ ai_suggestion[r].server_name # NullName
        /\ \A i \in Bindings : ~SameName(i, ai_suggestion[r].server_name)
        => /\ Returned(r, "no_mcp_server_found")
           /\ outcome[r].content = Apology
           /\ outcome[r].confidence = 0
           /\ nHandle[r] = nAnalyze[r] - 1
           /\ nHandle[r] = Len(existing_context[r])

C6_Witness ==
    /\ Returned(1, "no_mcp_server_found")
    /\ ai_suggestion[1].server_name = <<"x">>
    /\ nAnalyze[1] = 3 /\ nHandle[1] = 2

\* C7: when consultation k is the first to bring a non-empty final answer, the
\* dispatch returns finished with that answer as content and num_tries = k, after
\* exactly k-1 tool calls, each of which is one fragment of the context that
\* consultation k was given.
C7_FinishedAtK ==
    \A r \in Callers :
        Judged(r) /\ ai_suggestion[r].present
                  /\ ai_suggestion[r].internal_final_outcome \notin {"", NullText}
        => /\ Returned(r, "finished")
           /\ outcome[r].content = ai_suggestion[r].internal_final_outcome
           /\ outcome[r].confidence = ai_suggestion[r].confidence
           /\ outcome[r].num_tries = nAnalyze[r]
           /\ nAnalyze[r] \in 1..10
           /\ nHandle[r] = nAnalyze[r] - 1
           /\ nHandleFailed[r] = 0
           /\ Len(ctx_passed[r]) = nHandle[r]
           /\ ctx_passed[r] = existing_context[r]

C7_Witness ==
    /\ Returned(1, "finished")
    /\ outcome[1].num_tries = 10
    /\ Len(ctx_passed[1]) = 9

\* C8: ten tool calls that all succeeded end the dispatch as max_attempt_exceeded,
\* and a dispatch ends so only after exactly 10 consultations and 10 tool calls,
\* with the context of all 10 results in its metadata.
C8_Exhausted ==
    \A r \in Callers :
        /\ Len(existing_context[r]) = 10 => Returned(r, "max_attempt_exceeded")
        /\ nHandle[r] = 10 /\ nHandleFailed[r] = 0 /\ pc[r] \in {"returned", "raised"}
              => Returned(r, "max_attempt_exceeded")
        /\ Returned(r, "max_attempt_exceeded")
              => /\ nAnalyze[r] = 10 /\ nHandle[r] = 10 /\ nHandleFailed[r] = 0
                 /\ "context_gathered" \in outcome[r].keys
                 /\ Len(outcome[r].context_gathered) = 10
                 /\ outcome[r].context_gathered = existing_context[r]

C8_Witness ==
    /\ Returned(1, "max_attempt_exceeded")
    /\ Len(outcome[1].context_gathered) = 10
    /\ \E i, j \in 1..10 :
         outcome[1].context_gathered[i].server_name # outcome[1].context_gathered[j].server_name

\* C9: a tool call that raises ends the dispatch at once as mcp_server_failed: it is
\* the last call of the dispatch (no consultation and no tool call after it), its
\* result is in no fragment, and the metadata holds the suggested tool name, the
\* suggested arguments and the text of the exception.
C9_RemoteFailure ==
    \A r \in Callers :
        /\ nHandleFailed[r] > 0 => Returned(r, "mcp_server_failed") /\ nHandleFailed[r] = 1
        /\ Returned(r, "mcp_server_failed")
              => /\ nHandleFailed[r] = 1
                 /\ nAnalyze[r] = nHandle[r]
                 /\ Len(existing_context[r]) = nHandle[r] - 1
                 /\ {"tool_name", "arguments", "details"} \subseteq outcome[r].keys
                 /\ outcome[r].tool_name = ai_suggestion[r].tool_name
                 /\ outcome[r].arguments = ai_suggestion[r].arguments
                 /\ outcome[r].details \in
                      {"TransportError", "HTTPStatusError", "JSONDecodeError",
                       "RuntimeError: MCP error",
                       "RuntimeError: MCP invoke response was not valid JSON"}

C9_Witness ==
    /\ Returned(1, "mcp_server_failed")
    /\ outcome[1].details = "TransportError"
    /\ outcome[1].tool_name = "read"
    /\ nHandle[1] = 3 /\ nAnalyze[1] = 3

\* C10: every JSON-RPC request gets an id greater than all ids given before it,
\* whichever client sends it; the first id is 1.
C10_IdsIncrease ==
    /\ sent # << >> => sent[1].id = 1
    /\ \A i, j \in 1..Len(sent) : i < j => sent[i].id < sent[j].id

C10_Witness ==
    /\ Len(sent) >= 6
    /\ \E i, j \in 1..Len(sent) : sent[i].client # sent[j].client
    /\ \E r1, r2 \in Callers : r1 # r2 /\ nHandle[r1] >= 2 /\ nHandle[r2] >= 2


\* C11: a discovery response that declares a protocol version other than the one
\* the client asks for is refused: the binding takes no tool list from it.
C11_VersionMismatchFatal ==
    \A b \in Bindings :
        discovered[b].version \notin {"", LatestProtocolVersion}
            => mcp_tools[b] = << >>


\* the two errors with which dispatch refuses a prompt
ValidationErrors ==
    {"ValueError: Prompt must not be empty", "ValueError: Prompt must contain at least one token"}

\* C12: the only exception that leaves dispatch is the refusal of the prompt;
\* whatever the oracle and the servers answer, a valid prompt gets a PromptOutcome.
C12_OnlyValidationEscapes ==
    \A r \in Callers :
        pc[r] = "raised" => outcome[r].raised \in ValidationErrors


Intents ==
    {"finished", "low_confidence", "no_suggestion", "no_mcp_server_found",
     "mcp_server_failed", "max_attempt_exceeded"}

\* C13: a returned PromptOutcome has an intent, and the intent is the reason the
\* loop stopped: finished after a non-empty final answer, no_suggestion after no
\* suggestion, low_confidence after a confidence under the cutoff, no_mcp_server_found
\* after a name no binding carries, mcp_server_failed after a tool call that raised,
\* max_attempt_exceeded after 10 completed iterations.
C13_IntentIsReason ==
    \A r \in Callers :
        pc[r] = "returned" =>
            LET s == ai_suggestion[r]
                i == outcome[r].intent
            IN  /\ "intent" \in outcome[r].keys
                /\ i \in Intents
                /\ i = "finished" =>
                      s.present /\ s.internal_final_outcome \notin {"", NullText}
                /\ i = "no_suggestion" => ~s.present
                /\ i = "low_confidence" => NonFinal(s) /\ s.confidence < 50
                /\ i = "no_mcp_server_found" =>
                      /\ NonFinal(s) /\ s.confidence >= 50
                      /\ \A b \in Bindings : ~SameName(b, s.server_name)
                /\ i = "mcp_server_failed" =>
                      /\ nHandleFailed[r] = 1
                      /\ NonFinal(s) /\ s.confidence >= 50
                /\ i = "max_attempt_exceeded" =>
                      /\ nAnalyze[r] = 10 /\ nHandle[r] = 10 /\ nHandleFailed[r] = 0
                      /\ Len(existing_context[r]) = 10

C13_Witness ==
    /\ Returned(1, "no_suggestion")
    /\ nAnalyze[1] = 3 /\ nHandle[1] = 2
    /\ "intent" \in outcome[1].keys


\* the discovery call of binding b has failed: no response, a status outside 2xx,
\* a body that is no JSON or no JSON object, or an "error" field
DiscoveryFailed(b) ==
    /\ discovered[b] # NoResponse
    /\ \/ discovered[b].status \notin 200..299
       \/ discovered[b].body \in {"not_json", "not_object", "error"}

\* C14: a discovery call that failed leaves the binding loaded with an empty tool
\* list and raises nothing in the request that resolves it; when every binding's
\* discovery failed, a request that is through with them is at its first
\* consultation with no tools to offer.
C14_LoadFailureSwallowed ==
    /\ \A b \in Bindings :
          DiscoveryFailed(b) =>
              /\ schema_loaded[b] /\ mcp_tools[b] = << >>
              /\ \A r \in Callers : idx[r] = b => pc[r] # "raised"
    /\ \A r \in Callers :
          /\ \A b \in Bindings : DiscoveryFailed(b)
          /\ pc[r] \notin {"start", "resolve", "lock_wait", "discover_wait"}
          => /\ pc[r] = "analyze_wait" /\ nAnalyze[r] = 1
             /\ available_servers[r] = [b \in Bindings |-> << >>]

C14_Witness ==
    /\ discovered[1] = Response(TransportFailure, "")
    /\ discovered[2].body = "error"
    /\ \E r \in Callers : pc[r] = "analyze_wait" /\ available_servers[r] = << << >>, << >> >>


\* C15: a loaded binding stays loaded, keeps its tool list, and gets no further
\* discovery call from any request, also when its list is empty after a failed load.
C15_ForwardOnly ==
    [][\A b \in Bindings :
           schema_loaded[b] =>
               /\ schema_loaded'[b]
               /\ mcp_tools'[b] = mcp_tools[b]
               /\ nDiscover'[b] = nDiscover[b]
               /\ discovered'[b] = discovered[b]]_vars

C15_Witness ==
    /\ DiscoveryFailed(1) /\ schema_loaded[1] /\ mcp_tools[1] = << >>
    /\ nDiscover[1] = 1
    /\ \A r \in Callers : Len(available_servers[r]) >= 1 /\ available_servers[r][1] = << >>


\* the methods of the protocol (types/mcp_2025_08_16.py: InitializeRequest,
\* ListToolsRequest, CallToolRequest)
ProtocolMethods == {"initialize", "tools/list", "tools/call"}

\* C16: every request a client sends is a JSON-RPC 2.0 envelope whose method is
\* initialize, tools/list or tools/call.
C16_ProtocolMethodsOnly ==
    \A i \in 1..Len(sent) :
        /\ sent[i].jsonrpc = "2.0"
        /\ sent[i].id >= FirstId
        /\ sent[i].method \in ProtocolMethods


\* the consultation brought nothing to act on: no suggestion, or one without final
\* answer and with a confidence under 0.5
NothingToActOn(suggestion) ==
    ~suggestion.present \/ (NonFinal(suggestion) /\ suggestion.confidence < 50)

\* C17 as claimed: a dispatch that ends for lack of a suggestion or for a confidence
\* under 0.5 returns the apology and reports confidence 0.
C17_RejectedReportsZero ==
    \A r \in Callers :
        Judged(r) /\ NothingToActOn(ai_suggestion[r])
            => /\ pc[r] = "returned"
               /\ outcome[r].content = Apology
               /\ outcome[r].confidence = 0

\* C17 as the code has it: such a dispatch returns the apology; it reports
\* confidence 0 when there was no suggestion, and the suggestion's own confidence
\* when there was one.
C17_RejectedReportsOwnConfidence ==
    \A r \in Callers :
        Judged(r) /\ NothingToActOn(ai_suggestion[r])
            => /\ pc[r] = "returned"
               /\ outcome[r].content = Apology
               /\ "confidence" \in outcome[r].keys
               /\ IF ai_suggestion[r].present
                  THEN /\ outcome[r].intent = "low_confidence"
                       /\ outcome[r].confidence = ai_suggestion[r].confidence
                  ELSE /\ outcome[r].intent = "no_suggestion"
                       /\ outcome[r].confidence = 0

C17_Witness ==
    /\ Returned(1, "low_confidence")
    /\ outcome[1].confidence = 49
    /\ outcome[1].content = Apology
    /\ nAnalyze[1] = 2


\* the invoke requests posted so far
Invokes == {i \in 1..Len(sent) : sent[i].method = "invoke"}

\* C18: a suggestion with a non-empty final answer ends the dispatch as finished,
\* with that answer, the suggestion's confidence and the number of consultations,
\* and without a tool call in that iteration, also when its confidence is under
\* 0.5 and when its server name is unknown or null.
C18_FinalAnswerFirst ==
    \A r \in Callers :
        LET s == ai_suggestion[r]
        IN  /\ Judged(r) /\ s.present
            /\ s.internal_final_outcome \notin {"", NullText}
            /\ \/ s.confidence < 50
               \/ \A b \in Bindings : ~SameName(b, s.server_name)
            => /\ Returned(r, "finished")
               /\ outcome[r].content = s.internal_final_outcome
               /\ outcome[r].confidence = s.confidence
               /\ outcome[r].num_tries = nAnalyze[r]
               /\ nHandle[r] = nAnalyze[r] - 1
               /\ Cardinality(Invokes) = nAnalyze[r] - 1

C18_Witness ==
    /\ Returned(1, "finished")
    /\ ai_suggestion[1].confidence = 30 /\ ai_suggestion[1].server_name = <<"x">>
    /\ outcome[1].confidence = 30
    /\ outcome[1].num_tries = 4


\* the bindings that carry the suggested name, letter case aside
Matches(name) == {b \in Bindings : SameName(b, name)}

\* C19: a suggestion without final answer, with a confidence of 0.5 or more and
\* with a server name, is sent to the client of the first binding in configuration
\* order that carries the name ignoring case, in one request and to no other
\* binding; the dispatch ends as no_mcp_server_found exactly when no binding does.
C19_FirstMatchingBinding ==
    \A r \in Callers :
        LET s == ai_suggestion[r]
            m == Matches(s.server_name)
        IN  /\ Judged(r) /\ NonFinal(s)
            /\ s.confidence >= 50
            /\ s.server_name # NullName
            => /\ Returned(r, "no_mcp_server_found") <=> m = {}
               /\ Cardinality(Invokes) = nHandle[r]
               /\ m # {} =>
                    /\ binding[r] \in m
                    /\ \A b \in m : binding[r] <= b
                    /\ sent[Len(sent)].method = "invoke"
                    /\ sent[Len(sent)].client = binding[r]
               /\ m = {} => nHandle[r] = nAnalyze[r] - 1

C19_Witness ==
    /\ pc[1] = "handle_wait"
    /\ ai_suggestion[1].server_name = servers[3]
    /\ Matches(ai_suggestion[1].server_name) = {1, 3}
    /\ binding[1] = 1
    /\ sent[Len(sent)].client = 1


\* C20: the context of a dispatch only grows at its end: it is empty at the first
\* consultation; a tool call that succeeded adds one fragment, after the others,
\* with the server and tool of its suggestion and with its result; every
\* consultation is given the context so far; an iteration that ends the dispatch
\* for another reason than the 10th result adds nothing.
C20_ContextAppendOnly ==
    [][\A r \in Callers :
           LET old == existing_context[r]
               new == existing_context'[r]
           IN  /\ nAnalyze[r] = 0 /\ nAnalyze'[r] = 1
                     => new = << >> /\ ctx_passed'[r] = << >>
               /\ nAnalyze'[r] # nAnalyze[r] => ctx_passed'[r] = new
               /\ \/ new = old
                  \/ /\ pc[r] \in {"handle_wait", "fallback_wait"}
                     /\ nHandleFailed'[r] = nHandleFailed[r]
                     /\ Len(new) = Len(old) + 1
                     /\ SubSeq(new, 1, Len(old)) = old
                     /\ new[Len(new)] = [server_name |-> ai_suggestion[r].server_name,
                                         tool_name |-> ai_suggestion[r].tool_name,
                                         result |-> "result"]
                     /\ Len(new) = nHandle[r]
               /\ pc'[r] = "raised" => new = old
               /\ pc'[r] = "returned" /\ outcome'[r].intent # "max_attempt_exceeded"
                     => new = old]_vars

C20_Witness ==
    /\ Returned(1, "mcp_server_failed")
    /\ nHandle[1] = 4
    /\ Len(existing_context[1]) = 3
    /\ existing_context[1][1].server_name = <<"f", "s">>
    /\ existing_context[1][2].server_name = <<"D", "B">>
    /\ existing_context[1][3].tool_name = "read"


\* the tool calls of request r that have returned a result
OwnResults(r) ==
    nHandle[r] - nHandleFailed[r]
        - (IF pc[r] \in {"handle_wait", "fallback_wait"} THEN 1 ELSE 0)

\* C21: with several dispatches at once, the context of each holds one fragment
\* per result of its own tool calls and nothing else, the context given to its
\* consultations likewise, and each counts down its own 10 iterations.
C21_PrivateContext ==
    \A r \in Callers :
        /\ Len(existing_context[r]) = OwnResults(r)
        /\ nAnalyze[r] <= MaxAttempts
        /\ nAnalyze[r] >= 1 =>
              /\ max_attempts[r] = MaxAttempts - nAnalyze[r]
              /\ Len(ctx_passed[r]) = nAnalyze[r] - 1
              /\ \A i \in 1..Len(ctx_passed[r]) : ctx_passed[r][i] = existing_context[r][i]

C21_Witness ==
    /\ pc[1] = "analyze_wait" /\ pc[2] = "handle_wait"
    /\ Len(ctx_passed[1]) = 3 /\ max_attempts[1] = 6
    /\ Len(ctx_passed[2]) = 1 /\ max_attempts[2] = 8


C23_ErrorFieldIsFailure ==
    \A r \in Callers :
        \A i \in 1..Len(existing_context[r]) : existing_context[r][i].result # "error"


\* the oracle backend gives nothing to parse: no client, an exception of
\* generate_content, an empty text, a text that is no JSON, or a JSON object
\* whose "confidence" or "suggested_arguments" is null
OracleFails(reply) ==
    \/ ~google_genai_client
    \/ reply.kind \in {"raises", "empty", "not_json"}
    \/ ParseAiResponse(reply).raised

\* C24: a consultation that fails or gives nothing to parse raises nothing; the
\* suggestion is absent and the dispatch returns in that iteration with intent
\* no_suggestion and confidence 0, without a tool call and with the context as it was.
C24_OracleFailureIsNoSuggestion ==
    [][\A r \in Callers : \A reply \in BackendReplies :
           OracleFails(reply) /\ AnalyzeReturn(r, reply)
               => /\ pc'[r] = "returned"
                  /\ ~ai_suggestion'[r].present
                  /\ outcome'[r].raised = ""
                  /\ outcome'[r].content = Apology
                  /\ outcome'[r].keys = {"intent", "confidence"}
                  /\ outcome'[r].intent = "no_suggestion"
                  /\ outcome'[r].confidence = 0
                  /\ nHandle' = nHandle
                  /\ sent' = sent
                  /\ existing_context' = existing_context]_vars

C24_Witness ==
    /\ Returned(1, "no_suggestion")
    /\ google_genai_client
    /\ outcome[1].confidence = 0
    /\ nAnalyze[1] = 5 /\ nHandle[1] = 4
    /\ Len(existing_context[1]) = 4


\* the credential the caller of request r presents to the serving layer
CallerCredential(r) == "caller" \o ToString(r)

C26_StrictAlternation ==
    [][\A r \in Callers :
           /\ nHandle'[r] # nHandle[r]
                 => /\ pc[r] = "analyze_wait" /\ pc'[r] = "handle_wait"
                    /\ nHandle'[r] = nHandle[r] + 1
                    /\ nHandle'[r] = nAnalyze[r]
                    /\ nAnalyze'[r] = nAnalyze[r]
           /\ nAnalyze'[r] # nAnalyze[r]
                 => /\ pc[r] \in {"resolve", "lock_wait", "discover_wait",
                                  "handle_wait", "fallback_wait"}
                    /\ pc'[r] = "analyze_wait"
                    /\ nAnalyze'[r] = nAnalyze[r] + 1
                    /\ nHandle'[r] = nHandle[r]
                    /\ nHandle[r] = nAnalyze[r]
                    /\ nHandleFailed[r] = 0
                    /\ Len(existing_context'[r]) = nHandle[r]
           /\ pc'[r] = "analyze_wait" => nAnalyze'[r] = nHandle'[r] + 1
           /\ pc'[r] \in {"handle_wait", "fallback_wait"} => nHandle'[r] = nAnalyze'[r]
           /\ pc[r] \in {"handle_wait", "fallback_wait"} /\ pc'[r] # pc[r]
                 => pc'[r] \in {"analyze_wait", "fallback_wait", "returned"}]_vars

C26_Witness ==
    /\ pc[1] = "handle_wait"
    /\ nAnalyze[1] = 3 /\ nHandle[1] = 3
    /\ Cardinality(Invokes) = 3
    /\ Len(existing_context[1]) = 2


\* the requests whose discovery POST for binding b is in flight
Discovering(b) == {r \in Callers : pc[r] = "discover_wait" /\ idx[r] = b}

\* a lock is held only by a request whose discovery POST is in flight, one
\* request at most discovers a binding at a time, and a binding that is not
\* loaded has the tool list it was built with
C27_LockHeldByLoader ==
    \A b \in Bindings :
        /\ lock[b] # 0 => lock[b] \in Discovering(b)
        /\ Cardinality(Discovering(b)) <= 1
        /\ ~schema_loaded[b] => mcp_tools[b] = << >> /\ discovered[b] = NoResponse

\* the cancellation of the holder frees the lock and leaves the binding as it was
C27_CancelReleases ==
    \A r \in Callers :
        pc[r] = "discover_wait" /\ pc'[r] = "raised"
        /\ outcome'[r] = Raised("CancelledError")
            => /\ lock'[idx[r]] = 0
               /\ ~schema_loaded'[idx[r]]
               /\ schema_loaded' = schema_loaded
               /\ mcp_tools' = mcp_tools

\* C27: a request cancelled while it holds a binding's lock with the discovery
\* in flight frees the lock and leaves the binding unloaded with its tool list
\* unchanged; two discoveries of one binding are never in flight together; a
\* request that waits for the lock is cancelled itself or sees the binding loaded
\* in the end.
C27_CancelledLoadNotStuck ==
    /\ []C27_LockHeldByLoader
    /\ [][C27_CancelReleases]_vars
    /\ \A r \in Callers : \A b \in 1..Len(TwoServers) :
          (pc[r] = "lock_wait" /\ idx[r] = b)
              ~> (outcome[r] = Raised("CancelledError") \/ schema_loaded[b])

C27_Witness ==
    /\ outcome[1] = Raised("CancelledError")
    /\ idx[1] = 1
    /\ nDiscover[1] = 2
    /\ schema_loaded[1]
    /\ pc[2] \notin {"lock_wait", "raised"}


Discovers == {i \in 1..Len(sent) : sent[i].method = "discover"}

\* a consultation has every binding's tools, gathered in the order of the
\* configuration; the discovery requests went out in that order and before
\* every tool call
C28_GatheredBeforeLoop ==
    /\ \A r \in Callers :
          /\ Len(available_servers[r]) <= Len(servers)
          /\ pc[r] = "resolve" => Len(available_servers[r]) = idx[r] - 1
          /\ nAnalyze[r] >= 1
                => /\ Len(available_servers[r]) = Len(servers)
                   /\ \A b \in Bindings :
                         /\ schema_loaded[b]
                         /\ nDiscover[b] = 1
                         /\ available_servers[r][b] = mcp_tools[b]
    /\ \A i, j \in Discovers : i < j => sent[i].client < sent[j].client
    /\ \A i \in Discovers : \A j \in Invokes : i < j

\* once the loop has begun, no step of the dispatch discovers or changes what
\* the consultations are given
C28_LoopKeepsSnapshot ==
    \A r \in Callers :
        nAnalyze[r] >= 1
            => /\ available_servers'[r] = available_servers[r]
               /\ nDiscover' = nDiscover
               /\ Discovers' = Discovers
               /\ pc'[r] \notin {"resolve", "lock_wait", "discover_wait"}

\* C28: every configured binding is resolved, in configuration order, before the
\* first consultation; the iterations discover nothing, and every consultation
\* of the dispatch is given the same tool lists.
C28_SnapshotBeforeLoop ==
    /\ []C28_GatheredBeforeLoop
    /\ [][C28_LoopKeepsSnapshot]_vars

C28_Witness ==
    /\ pc[1] = "analyze_wait"
    /\ nAnalyze[1] = 10
    /\ available_servers[1] = << PublishedTools, << >>, PublishedTools >>
    /\ Cardinality(Discovers) = 3


\* C29: without a Google GenAI client every dispatch of a prompt with a token
\* ends with intent no_suggestion after exactly one consultation and no tool call.
C29_NoGoogleClientNoSuggestion ==
    \A r \in Callers :
        ~google_genai_client /\ HasAlphanumeric(prompt[r]) /\ pc[r] \in {"returned", "raised"}
            => /\ Returned(r, "no_suggestion")
               /\ nAnalyze[r] = 1
               /\ nHandle[r] = 0

=============================================================================
